---- MODULE Spec2Model ----
(***************************************************************************)
(* Model of the installation symbol detection service (src/main.py).       *)
(*                                                                         *)
(* Numbers.  Input coordinates are integers.  Every quantity the code      *)
(* derives from them is kept exactly, in a fixed unit:                     *)
(*   - positions (midpoints /2, centroids /3) are kept in sixths of a      *)
(*     coordinate unit, so position.x = 630 stands for x = 105;            *)
(*   - areas are kept in hundredths (1000 stands for 10.0, 999 for 9.99);  *)
(*   - confidences are kept in tenths (10 stands for 1.0, 7 for 0.7);      *)
(*   - comparisons between square roots are decided exactly by squaring.   *)
(* Strings are sequences of one-character strings, so that upper() and the *)
(* substring test `in` are computed and not assumed.                       *)
(***************************************************************************)
EXTENDS Integers, Sequences, FiniteSets, TLC

VARIABLES
  request,      \* request.pages: the batch handed to detect_installations
  pc,           \* position of the handler: loop, extract, return, except, done, failed, idle
  page_index,   \* index in request of page_data, the page being processed
  stage,        \* loop of _extract_installation_symbols: texts, rectangles, curves, lines
  item_index,   \* index of the next element of that loop
  symbols,      \* the accumulating list of _extract_installation_symbols
  results,      \* the results list of detect_installations
  response,     \* what the endpoint answered (status 0: nothing yet)
  probe         \* a direct call of one pure function: its arguments and its outcome

vars == <<request, pc, page_index, stage, item_index, symbols, results, response, probe>>

(***************************************************************************)
(* Knowledge base tables, in declaration order.                            *)
(***************************************************************************)
INSTALLATION_PATTERNS ==
  <<
     [type |-> "WCD", keywords |-> <<
        <<"W", "C", "D">>,
        <<"S", "T", "O", "P", "C", "O", "N", "T", "A", "C", "T">>,
        <<"O", "U", "T", "L", "E", "T">>,
        <<"S", "O", "C", "K", "E", "T">>,
        <<"W", "A", "N", "D", "C", "O", "N", "T", "A", "C", "T", "D", "O", "O", "S">>>>],
     [type |-> "LICHTPUNT", keywords |-> <<
        <<"L", "I", "C", "H", "T", "P", "U", "N", "T">>,
        <<"L", "I", "G", "H", "T">>,
        <<"V", "E", "R", "L", "I", "C", "H", "T", "I", "N", "G">>,
        <<"L", "A", "M", "P">>,
        <<"P", "L">>,
        <<"T", "L">>,
        <<"C", "E", "I", "L", "I", "N", "G", " ", "L", "I", "G", "H", "T">>>>],
     [type |-> "SCHAKELAAR", keywords |-> <<
        <<"S", "C", "H", "A", "K", "E", "L", "A", "A", "R">>,
        <<"S", "W", "I", "T", "C", "H">>,
        <<"L", "I", "G", "H", "T", " ", "S", "W", "I", "T", "C", "H">>,
        <<"D", "I", "M", "M", "E", "R">>,
        <<"S", "W">>>>],
     [type |-> "MV", keywords |-> <<
        <<"M", "V">>,
        <<"M", "E", "C", "H", "A", "N", "I", "S", "C", "H", "E", " ", "V", "E", "N", "T", "I", "L", "A", "T", "I", "E">>,
        <<"V", "E", "N", "T", "I", "L", "A", "T", "I", "E">>,
        <<"A", "F", "Z", "U", "I", "G", "I", "N", "G">>,
        <<"V", "E", "N", "T", "I", "L", "A", "T", "I", "O", "N">>,
        <<"E", "X", "T", "R", "A", "C", "T", "I", "O", "N">>>>],
     [type |-> "CAI", keywords |-> <<
        <<"C", "A", "I">>,
        <<"T", "V">>,
        <<"A", "N", "T", "E", "N", "N", "E">>,
        <<"C", "A", "B", "L", "E">>,
        <<"A", "N", "T", "E", "N", "N", "A">>,
        <<"C", "O", "A", "X">>>>],
     [type |-> "DATA", keywords |-> <<
        <<"D", "A", "T", "A">>,
        <<"U", "T", "P">>,
        <<"R", "J", "4", "5">>,
        <<"I", "N", "T", "E", "R", "N", "E", "T">>,
        <<"N", "E", "T", "W", "E", "R", "K">>,
        <<"N", "E", "T", "W", "O", "R", "K">>>>],
     [type |-> "THERMOSTAAT", keywords |-> <<
        <<"T", "H", "E", "R", "M", "O", "S", "T", "A", "A", "T">>,
        <<"T", "H", "E", "R", "M", "O", "S", "T", "A", "T">>,
        <<"T", "E", "M", "P">>,
        <<"T", "E", "M", "P", "E", "R", "A", "T", "U", "R", "E">>,
        <<"T", "E", "M", "P", " ", "C", "O", "N", "T", "R", "O", "L">>>>],
     [type |-> "ALARM", keywords |-> <<
        <<"A", "L", "A", "R", "M">>,
        <<"S", "M", "O", "K", "E">>,
        <<"R", "O", "O", "K", "M", "E", "L", "D", "E", "R">>,
        <<"B", "R", "A", "N", "D", "M", "E", "L", "D", "E", "R">>,
        <<"S", "M", "O", "K", "E", " ", "D", "E", "T", "E", "C", "T", "O", "R">>,
        <<"F", "I", "R", "E", " ", "A", "L", "A", "R", "M">>>>],
     [type |-> "BELL", keywords |-> <<
        <<"B", "E", "L", "L">>,
        <<"D", "E", "U", "R", "B", "E", "L">>,
        <<"D", "O", "O", "R", "B", "E", "L", "L">>,
        <<"C", "H", "I", "M", "E">>,
        <<"G", "O", "N", "G">>>>],
     [type |-> "WATERTAP", keywords |-> <<
        <<"K", "R", "A", "A", "N">>,
        <<"T", "A", "P">>,
        <<"W", "A", "T", "E", "R">>,
        <<"W", "A", "T", "E", "R", "T", "A", "P", "P", "U", "N", "T">>,
        <<"W", "A", "T", "E", "R", " ", "S", "U", "P", "P", "L", "Y">>>>],
     [type |-> "DRAIN", keywords |-> <<
        <<"A", "F", "V", "O", "E", "R">>,
        <<"D", "R", "A", "I", "N">>,
        <<"W", "A", "T", "E", "R", " ", "D", "R", "A", "I", "N">>,
        <<"G", "O", "O", "T", "S", "T", "E", "E", "N">>,
        <<"S", "I", "N", "K">>>>],
     [type |-> "HRU", keywords |-> <<
        <<"H", "R", "U">>,
        <<"H", "E", "A", "T", " ", "R", "E", "C", "O", "V", "E", "R", "Y">>,
        <<"W", "A", "R", "M", "T", "E", " ", "T", "E", "R", "U", "G", "W", "I", "N", "N", "I", "N", "G">>,
        <<"W", "T", "W">>>>],
     [type |-> "HEATING", keywords |-> <<
        <<"C", "V">>,
        <<"R", "A", "D", "I", "A", "T", "O", "R">>,
        <<"V", "E", "R", "W", "A", "R", "M", "I", "N", "G">>,
        <<"H", "E", "A", "T", "I", "N", "G">>,
        <<"B", "O", "I", "L", "E", "R">>>>],
     [type |-> "PV", keywords |-> <<
        <<"P", "V">>,
        <<"S", "O", "L", "A", "R">>,
        <<"Z", "O", "N", "N", "E", "P", "A", "N", "E", "E", "L">>,
        <<"S", "O", "L", "A", "R", "P", "A", "N", "E", "L">>>>]
  >>

INSTALLATION_MAPPING ==
  "WCD" :> [label_code |-> "EI01", label_type |-> "installation",
      label_nl |-> "Elektrainstallatie_stopcontact", label_en |-> "Electrical_installation_outlet"] @@
  "LICHTPUNT" :> [label_code |-> "EI02", label_type |-> "installation",
      label_nl |-> "Elektrainstallatie_lichtpunt", label_en |-> "Electrical_installation_light"] @@
  "SCHAKELAAR" :> [label_code |-> "EI03", label_type |-> "installation",
      label_nl |-> "Elektrainstallatie_schakelaar", label_en |-> "Electrical_installation_switch"] @@
  "MV" :> [label_code |-> "HVAC01", label_type |-> "installation",
      label_nl |-> "Klimaatinstallatie_ventilatie", label_en |-> "HVAC_ventilation"] @@
  "CAI" :> [label_code |-> "EI04", label_type |-> "installation",
      label_nl |-> "Elektrainstallatie_cai", label_en |-> "Electrical_installation_cable"] @@
  "DATA" :> [label_code |-> "EI05", label_type |-> "installation",
      label_nl |-> "Elektrainstallatie_data", label_en |-> "Electrical_installation_data"] @@
  "THERMOSTAAT" :> [label_code |-> "HVAC02", label_type |-> "installation",
      label_nl |-> "Klimaatinstallatie_thermostaat", label_en |-> "HVAC_thermostat"] @@
  "ALARM" :> [label_code |-> "FS01", label_type |-> "installation",
      label_nl |-> "Brandveiligheidstoestel", label_en |-> "Fire_safety_device"] @@
  "BELL" :> [label_code |-> "EI06", label_type |-> "installation",
      label_nl |-> "Elektrainstallatie_bel", label_en |-> "Electrical_installation_bell"] @@
  "WATERTAP" :> [label_code |-> "WI01", label_type |-> "installation",
      label_nl |-> "Waterinstallatie_tap", label_en |-> "Water_installation_tap"] @@
  "DRAIN" :> [label_code |-> "WI02", label_type |-> "installation",
      label_nl |-> "Waterinstallatie_afvoer", label_en |-> "Water_installation_drain"] @@
  "HRU" :> [label_code |-> "HVAC03", label_type |-> "installation",
      label_nl |-> "Klimaatinstallatie_wtw", label_en |-> "HVAC_heat_recovery"] @@
  "HEATING" :> [label_code |-> "HVAC04", label_type |-> "installation",
      label_nl |-> "Klimaatinstallatie_verwarming", label_en |-> "HVAC_heating"] @@
  "PV" :> [label_code |-> "PV01", label_type |-> "installation",
      label_nl |-> "Zonnepanelen_zone", label_en |-> "PV_zone"]

UNKNOWN_MAPPING ==
  [label_code |-> "UNKNOWN", label_type |-> "installation",
   label_nl |-> "Onbekende_installatie", label_en |-> "Unknown_installation"]

\* INSTALLATION_MAPPING.get(symbol_type, {...UNKNOWN...})
MappingGet(symbol_type) ==
  IF symbol_type \in DOMAIN INSTALLATION_MAPPING
  THEN INSTALLATION_MAPPING[symbol_type]
  ELSE UNKNOWN_MAPPING

(***************************************************************************)
(* Strings: str.upper() and the substring test.                            *)
(***************************************************************************)
LowerCase ==
  <<"a", "b", "c", "d", "e", "f", "g", "h", "i", "j", "k", "l", "m",
    "n", "o", "p", "q", "r", "s", "t", "u", "v", "w", "x", "y", "z">>

UpperCase ==
  <<"A", "B", "C", "D", "E", "F", "G", "H", "I", "J", "K", "L", "M",
    "N", "O", "P", "Q", "R", "S", "T", "U", "V", "W", "X", "Y", "Z">>

\* the letters with an upper-case form, each with that form
UpperMap == [c \in {LowerCase[i] : i \in DOMAIN LowerCase} |->
               UpperCase[CHOOSE i \in DOMAIN LowerCase : LowerCase[i] = c]]

UpperChar(c) == IF c \in DOMAIN UpperMap THEN UpperMap[c] ELSE c

\* text.upper()
RECURSIVE Upper(_)
Upper(text) ==
  IF text = <<>>
  THEN <<>>
  ELSE <<UpperChar(Head(text))>> \o Upper(Tail(text))

\* pattern in text
Contains(text, pattern) ==
  \E i \in 0..(Len(text) - Len(pattern)) :
    SubSeq(text, i + 1, i + Len(pattern)) = pattern

\* any(keyword.upper() in text_upper for keyword in keywords)
AnyKeyword(keywords, text_upper) ==
  \E j \in DOMAIN keywords : Contains(text_upper, Upper(keywords[j]))

(***************************************************************************)
(* Utility functions.                                                      *)
(***************************************************************************)
Sq(n) == n * n

Min2(a, b) == IF a <= b THEN a ELSE b

Max2(a, b) == IF a >= b THEN a ELSE b

\* distance(p1, p2) squared, for two positions kept in sixths: 36 times the
\* square of the distance in coordinate units
distance_sq(p1, p2) == Sq(p2.x - p1.x) + Sq(p2.y - p1.y)

\* a * (sqrt(sj) + sqrt(sk)) < b * sqrt(si), decided on the squares
SqrtSumLess(a, sj, sk, b, si) ==
  LET D == Sq(b) * si - Sq(a) * (sj + sk)
  IN  D > 0 /\ 4 * Sq(Sq(a)) * sj * sk < Sq(D)

\* a * (sqrt(sj) + sqrt(sk)) > b * sqrt(si), decided on the squares
SqrtSumMore(a, sj, sk, b, si) ==
  LET E == Sq(b) * si - Sq(a) * (sj + sk)
  IN  E < 0 \/ Sq(E) < 4 * Sq(Sq(a)) * sj * sk

\* 9 * distance(center, p)^2, where center is the mean of p1, p2, p3
CenterDist2(item, p) ==
  Sq(3 * p.x - (item.p1.x + item.p2.x + item.p3.x))
    + Sq(3 * p.y - (item.p1.y + item.p2.y + item.p3.y))

\* avg_dist = 0: the divisions of is_circle raise ZeroDivisionError
is_circle_raises(item) ==
  /\ item.type = "curve"
  /\ CenterDist2(item, item.p1) = 0
  /\ CenterDist2(item, item.p2) = 0
  /\ CenterDist2(item, item.p3) = 0

\* WithinTolerance without abs: (d - avg_dist) / avg_dist < 0.2
WithinToleranceNoAbs(si, sj, sk) == SqrtSumMore(2, sj, sk, 3, si)

\* abs(d - avg_dist) / avg_dist < 0.2 for the point with squared distance si:
\* with r = sqrt(s), 4 (rj + rk) < 11 ri and 3 ri < 2 (rj + rk)
WithinTolerance(si, sj, sk) ==
  /\ SqrtSumLess(4, sj, sk, 11, si)
  /\ SqrtSumMore(2, sj, sk, 3, si)

is_circle(item) ==
  IF item.type # "curve"
  THEN FALSE
  ELSE LET s1 == CenterDist2(item, item.p1)
           s2 == CenterDist2(item, item.p2)
           s3 == CenterDist2(item, item.p3)
       IN  /\ WithinTolerance(s1, s2, s3)
           /\ WithinTolerance(s2, s1, s3)
           /\ WithinTolerance(s3, s1, s2)

\* The ZeroDivisionError of get_symbol_shape: width / height with height = 0,
\* or the one of is_circle
get_symbol_shape_raises(item) ==
  IF item.type = "rect"
  THEN item.rect.height = 0
  ELSE item.type = "curve" /\ is_circle_raises(item)

get_symbol_shape(item) ==
  IF item.type = "rect"
  THEN LET width == item.rect.width
           height == item.rect.height
       IN  \* 0.8 <= width / height <= 1.2
           IF \/ height > 0 /\ 8 * height <= 10 * width /\ 10 * width <= 12 * height
              \/ height < 0 /\ 8 * height >= 10 * width /\ 10 * width >= 12 * height
           THEN "square"
           ELSE "rectangle"
  ELSE IF item.type = "curve" /\ is_circle(item)
  THEN "circle"
  ELSE IF item.type = "line"
  THEN "line"
  ELSE "unknown"

\* the return value None
None == [type |-> "None"]

\* is_geometric_pattern_match with the circle range exclusive: 10 < area < 50
PatternMatchCircleExclusive(shape, area) ==
  IF shape = "circle" /\ 1000 < area /\ area < 5000
  THEN [type |-> "LICHTPUNT", confidence |-> 7,
        reason |-> "Circle pattern typical for ceiling light"]
  ELSE IF shape = "square" /\ 400 <= area /\ area <= 2500
  THEN [type |-> "WCD", confidence |-> 7,
        reason |-> "Small square pattern typical for electrical outlet"]
  ELSE IF shape = "rectangle" /\ 400 <= area /\ area <= 3600 /\ area > 0
  THEN [type |-> "SCHAKELAAR", confidence |-> 6,
        reason |-> "Small rectangle pattern typical for switch"]
  ELSE IF shape = "line" /\ area > 0
  THEN [type |-> "WATERTAP", confidence |-> 5,
        reason |-> "Line pattern that may represent water installation"]
  ELSE None

\* is_geometric_pattern_match with the rectangle range (0, 36]
PatternMatchRectangleFromZero(shape, area) ==
  IF shape = "circle" /\ 1000 <= area /\ area <= 5000
  THEN [type |-> "LICHTPUNT", confidence |-> 7,
        reason |-> "Circle pattern typical for ceiling light"]
  ELSE IF shape = "square" /\ 400 <= area /\ area <= 2500
  THEN [type |-> "WCD", confidence |-> 7,
        reason |-> "Small square pattern typical for electrical outlet"]
  ELSE IF shape = "rectangle" /\ area <= 3600 /\ area > 0
  THEN [type |-> "SCHAKELAAR", confidence |-> 6,
        reason |-> "Small rectangle pattern typical for switch"]
  ELSE IF shape = "line" /\ area > 0
  THEN [type |-> "WATERTAP", confidence |-> 5,
        reason |-> "Line pattern that may represent water installation"]
  ELSE None

\* area is in hundredths, confidence in tenths
is_geometric_pattern_match(shape, area) ==
  IF shape = "circle" /\ 1000 <= area /\ area <= 5000
  THEN [type |-> "LICHTPUNT", confidence |-> 7,
        reason |-> "Circle pattern typical for ceiling light"]
  ELSE IF shape = "square" /\ 400 <= area /\ area <= 2500
  THEN [type |-> "WCD", confidence |-> 7,
        reason |-> "Small square pattern typical for electrical outlet"]
  ELSE IF shape = "rectangle" /\ 400 <= area /\ area <= 3600 /\ area > 0
  THEN [type |-> "SCHAKELAAR", confidence |-> 6,
        reason |-> "Small rectangle pattern typical for switch"]
  ELSE IF shape = "line" /\ area > 0
  THEN [type |-> "WATERTAP", confidence |-> 5,
        reason |-> "Line pattern that may represent water installation"]
  ELSE None

\* floor(sqrt(n)), by bisection between lo and hi
RECURSIVE ISqrtBetween(_, _, _)
ISqrtBetween(n, lo, hi) ==
  IF lo >= hi
  THEN lo
  ELSE LET mid == (lo + hi + 1) \div 2
       IN  IF Sq(mid) <= n
           THEN ISqrtBetween(n, mid, hi)
           ELSE ISqrtBetween(n, lo, mid - 1)

\* the squares of the bisection stay below 2^31
ISqrt(n) == ISqrtBetween(n, 0, Min2(n, 46340))

\* in hundredths, rounded down.  For integer coordinates math.pi * radius ** 2
\* is never within 0.1 of a threshold of is_geometric_pattern_match, and a
\* length is 0 or at least 1, so the rounding decides no comparison.
calc_item_area(item) ==
  IF item.type = "rect"
  THEN 100 * item.rect.width * item.rect.height
  ELSE IF item.type = "curve" /\ is_circle(item)
  THEN \* radius ** 2 = CenterDist2 / 9
       (314159 * CenterDist2(item, item.p1)) \div 9000
  ELSE IF item.type = "line"
  THEN ISqrt(10000 * (Sq(item.p2.x - item.p1.x) + Sq(item.p2.y - item.p1.y)))
  ELSE 0

(***************************************************************************)
(* _extract_installation_symbols: the records it builds.                   *)
(***************************************************************************)
\* the symbol of a text match (lines 345-360); position = bbox centre, in sixths
TextSymbol(text_dict, symbol_type) ==
  LET symbol_info == MappingGet(symbol_type)
  IN  [type |-> symbol_type,
       label_code |-> symbol_info.label_code,
       label_type |-> symbol_info.label_type,
       label_nl |-> symbol_info.label_nl,
       label_en |-> symbol_info.label_en,
       position |-> [x |-> 3 * (text_dict.bbox.x0 + text_dict.bbox.x1),
                     y |-> 3 * (text_dict.bbox.y0 + text_dict.bbox.y1)],
       text |-> text_dict.text,
       bbox |-> text_dict.bbox,
       confidence |-> 10,
       reason |-> <<"Text contains ", symbol_type, " keyword">>,
       source |-> "text"]

\* the symbol of a geometric match (lines 397-409, 441-458, 490-507)
GeoSymbol(pattern_match, position, bbox, shape) ==
  LET symbol_info == MappingGet(pattern_match.type)
  IN  [type |-> pattern_match.type,
       label_code |-> symbol_info.label_code,
       label_type |-> symbol_info.label_type,
       label_nl |-> symbol_info.label_nl,
       label_en |-> symbol_info.label_en,
       position |-> position,
       bbox |-> bbox,
       confidence |-> pattern_match.confidence,
       reason |-> pattern_match.reason,
       source |-> "geometric_pattern",
       shape |-> shape]

\* the record returned for a page without symbols
Sentinel ==
  [type |-> "unknown",
   label_code |-> "UNKNOWN",
   label_type |-> "installation",
   label_nl |-> "Onbekende_installatie",
   label_en |-> "Unknown_installation",
   reason |-> "No installation symbols detected",
   confidence |-> 0]

\* positions, in sixths
RectPosition(rect_dict) ==
  [x |-> 3 * (rect_dict.rect.x0 + rect_dict.rect.x1),
   y |-> 3 * (rect_dict.rect.y0 + rect_dict.rect.y1)]

CurvePosition(curve_dict) ==
  [x |-> 2 * (curve_dict.p1.x + curve_dict.p2.x + curve_dict.p3.x),
   y |-> 2 * (curve_dict.p1.y + curve_dict.p2.y + curve_dict.p3.y)]

LinePosition(line_dict) ==
  [x |-> 3 * (line_dict.p1.x + line_dict.p2.x),
   y |-> 3 * (line_dict.p1.y + line_dict.p2.y)]

CurveBbox(c) ==
  [x0 |-> Min2(c.p1.x, Min2(c.p2.x, c.p3.x)),
   y0 |-> Min2(c.p1.y, Min2(c.p2.y, c.p3.y)),
   x1 |-> Max2(c.p1.x, Max2(c.p2.x, c.p3.x)),
   y1 |-> Max2(c.p1.y, Max2(c.p2.y, c.p3.y))]

LineBbox(l) ==
  [x0 |-> Min2(l.p1.x, l.p2.x),
   y0 |-> Min2(l.p1.y, l.p2.y),
   x1 |-> Max2(l.p1.x, l.p2.x),
   y1 |-> Max2(l.p1.y, l.p2.y)]

\* AppendSymbol with the new symbol put in front
PrependSymbol(list, symbol) == <<symbol>> \o list

\* symbols.append(...)
AppendSymbol(list, symbol) == Append(list, symbol)

\* TextLoop with a break after the first matching type
RECURSIVE TextLoopBreak(_, _, _, _)
TextLoopBreak(list, text_dict, text_upper, n) ==
  IF n > Len(INSTALLATION_PATTERNS)
  THEN list
  ELSE IF AnyKeyword(INSTALLATION_PATTERNS[n].keywords, text_upper)
  THEN Append(list, TextSymbol(text_dict, INSTALLATION_PATTERNS[n].type))
  ELSE TextLoopBreak(list, text_dict, text_upper, n + 1)

\* the loop over INSTALLATION_PATTERNS.items() for one text, from entry n on
RECURSIVE TextLoop(_, _, _, _)
TextLoop(list, text_dict, text_upper, n) ==
  IF n > Len(INSTALLATION_PATTERNS)
  THEN list
  ELSE LET symbol_type == INSTALLATION_PATTERNS[n].type
           keywords == INSTALLATION_PATTERNS[n].keywords
       IN  IF AnyKeyword(keywords, text_upper)
           THEN TextLoop(AppendSymbol(list, TextSymbol(text_dict, symbol_type)),
                         text_dict, text_upper, n + 1)
           ELSE TextLoop(list, text_dict, text_upper, n + 1)

\* IsDuplicate with <= 20 in place of < 20
IsDuplicateInclusive(list, pattern_match, position) ==
  \E i \in DOMAIN list :
    /\ distance_sq(list[i].position, position) <= Sq(6 * 20)
    /\ list[i].type = pattern_match.type

\* IsDuplicate scanning the text symbols only
IsDuplicateOfText(list, pattern_match, position) ==
  \E i \in DOMAIN list :
    /\ list[i].source = "text"
    /\ distance_sq(list[i].position, position) < Sq(6 * 20)
    /\ list[i].type = pattern_match.type

\* the scan of the accumulated list: distance(...) < 20 and the same type
IsDuplicate(list, pattern_match, position) ==
  \E i \in DOMAIN list :
    /\ distance_sq(list[i].position, position) < Sq(6 * 20)
    /\ list[i].type = pattern_match.type

\* one iteration of a geometric loop, once shape and area are known
GeoAppend(list, item, position, bbox) ==
  LET shape == get_symbol_shape(item)
      area == calc_item_area(item)
      pattern_match == is_geometric_pattern_match(shape, area)
  IN  IF pattern_match # None
         /\ (item.type = "line" => pattern_match.type \in {"WATERTAP", "DRAIN"})
         /\ ~IsDuplicate(list, pattern_match, position)
      THEN AppendSymbol(list, GeoSymbol(pattern_match, position, bbox, shape))
      ELSE list

\* ReturnValue without the sentinel
ReturnValueAsIs(list) == list

\* if not symbols: return [sentinel]; return symbols
ReturnValue(list) == IF list = <<>> THEN <<Sentinel>> ELSE list

(***************************************************************************)
(* Inputs.                                                                 *)
(***************************************************************************)
MaxItems == 3        \* texts and drawings on the page of a one-page request
MaxPages == 2        \* pages of a batch
MaxPageNumber == 2   \* page numbers of a batch are 1..MaxPageNumber
GridMax == 2         \* curve points of a direct is_circle call are in -GridMax..GridMax
MaxArea == 5100      \* areas of a direct matcher call are 0..MaxArea hundredths

Pt(px, py) == [x |-> px, y |-> py]

MkText(text, bbox) == [text |-> text, bbox |-> bbox]

MkRect(px, py, w, h) ==
  [type |-> "rect",
   rect |-> [x0 |-> px, y0 |-> py, x1 |-> px + w, y1 |-> py + h,
             width |-> w, height |-> h]]

MkCurve(a, b, c) == [type |-> "curve", p1 |-> a, p2 |-> b, p3 |-> c]

MkLine(a, b) == [type |-> "line", p1 |-> a, p2 |-> b]

\* "wcd", "Light Switch", "kraan", "xyz"
TextStrings ==
  { <<"w", "c", "d">>,
    <<"L", "i", "g", "h", "t", " ", "S", "w", "i", "t", "c", "h">>,
    <<"k", "r", "a", "a", "n">>,
    <<"x", "y", "z">> }

\* centre (100, 100)
BoxA == [x0 |-> 90, y0 |-> 95, x1 |-> 110, y1 |-> 105]

\* centre (150, 100)
BoxB == [x0 |-> 140, y0 |-> 95, x1 |-> 160, y1 |-> 105]

TextItems ==
  {MkText(t, BoxA) : t \in TextStrings} \cup {MkText(<<"w", "c", "d">>, BoxB)}

\* a 4 x 4 rectangle at the first origin has centre (105, 102), at the second
\* (120, 100): at distance 20 of (100, 100)
RectOrigins == {Pt(103, 100), Pt(118, 98)}

RectSizes == {<<4, 4>>, <<2, 5>>, <<1, 2>>, <<4, 0>>, <<0, 4>>}

RectItems == {MkRect(o.x, o.y, wh[1], wh[2]) : o \in RectOrigins, wh \in RectSizes}

\* two near-regular triangles with centroids (100, 100) and (120, 100), three
\* coincident points, three points on a line
CurveItems ==
  { MkCurve(Pt(97, 98), Pt(103, 98), Pt(100, 104)),
    MkCurve(Pt(117, 98), Pt(123, 98), Pt(120, 104)),
    MkCurve(Pt(100, 100), Pt(100, 100), Pt(100, 100)),
    MkCurve(Pt(97, 98), Pt(100, 98), Pt(103, 98)) }

\* midpoints (100, 100) and (120, 100); a line of length 0
LineItems ==
  { MkLine(Pt(90, 100), Pt(110, 100)),
    MkLine(Pt(110, 100), Pt(130, 100)),
    MkLine(Pt(100, 100), Pt(100, 100)) }

MkPage(n, texts, rectangles, curves, lines) ==
  [page_number |-> n,
   texts |-> texts,
   drawings |-> [lines |-> lines, rectangles |-> rectangles, curves |-> curves]]

\* the numbers of texts, rectangles, curves and lines of a page with at most m
\* texts and drawings in all
Compositions(m) ==
  {q \in (0..m) \X (0..m) \X (0..m) \X (0..m) : q[1] + q[2] + q[3] + q[4] <= m}

\* the pages of a batch: an empty page, a page with one label, a page with a
\* label and drawings, and two pages whose drawings are degenerate
BatchPages(n) ==
  { MkPage(n, <<>>, <<>>, <<>>, <<>>),
    MkPage(n, <<MkText(<<"w", "c", "d">>, BoxA)>>, <<>>, <<>>, <<>>),
    MkPage(n, <<MkText(<<"w", "c", "d">>, BoxA)>>, <<MkRect(103, 100, 4, 4)>>,
           <<MkCurve(Pt(117, 98), Pt(123, 98), Pt(120, 104))>>,
           <<MkLine(Pt(90, 100), Pt(110, 100))>>),
    MkPage(n, <<>>, <<MkRect(103, 100, 4, 0)>>, <<>>, <<>>),
    MkPage(n, <<>>, <<>>, <<MkCurve(Pt(100, 100), Pt(100, 100), Pt(100, 100))>>, <<>>) }

BatchPageSet == UNION {BatchPages(n) : n \in 1..MaxPageNumber}

Grid == {Pt(px, py) : px \in (-GridMax)..GridMax, py \in (-GridMax)..GridMax}

Shapes == {"circle", "square", "rectangle", "line", "unknown"}

(***************************************************************************)
(* detect_installations and _extract_installation_symbols, step by step.   *)
(***************************************************************************)
page_data == request[page_index]

StageOrder == <<"texts", "rectangles", "curves", "lines">>

StageItems(page, n) ==
  IF n = 1 THEN page.texts
  ELSE IF n = 2 THEN page.drawings.rectangles
  ELSE IF n = 3 THEN page.drawings.curves
  ELSE page.drawings.lines

StageNumber(s) == CHOOSE n \in DOMAIN StageOrder : StageOrder[n] = s

\* where control is once element k of loop n is reached: in that loop, in a
\* later loop, or at the end of the function
RECURSIVE NextPosition(_, _, _)
NextPosition(page, n, k) ==
  IF n > Len(StageOrder)
  THEN [pc |-> "return", stage |-> "lines", item_index |-> k]
  ELSE IF k <= Len(StageItems(page, n))
  THEN [pc |-> "extract", stage |-> StageOrder[n], item_index |-> k]
  ELSE NextPosition(page, n + 1, 1)

Goto(pos) ==
  /\ pc' = pos.pc
  /\ stage' = pos.stage
  /\ item_index' = pos.item_index

NoResponse == [status |-> 0]

NoProbe == [fn |-> "none"]

Start(pages) ==
  /\ request = pages
  /\ pc = "loop"
  /\ page_index = 1
  /\ stage = "texts"
  /\ item_index = 1
  /\ symbols = <<>>
  /\ results = <<>>
  /\ response = NoResponse
  /\ probe = NoProbe

\* a request of one page, with at most MaxItems texts and drawings
Init ==
  \E q \in Compositions(MaxItems) :
    \E t \in [1..q[1] -> TextItems], r \in [1..q[2] -> RectItems],
       c \in [1..q[3] -> CurveItems], l \in [1..q[4] -> LineItems] :
      Start(<<MkPage(1, t, r, c, l)>>)

\* a request of at most MaxPages pages
InitBatch == \E k \in 0..MaxPages : \E b \in [1..k -> BatchPageSet] : Start(b)

\* no request: the functions are called directly
InitUnit ==
  /\ request = <<>>
  /\ pc = "idle"
  /\ page_index = 1
  /\ stage = "texts"
  /\ item_index = 1
  /\ symbols = <<>>
  /\ results = <<>>
  /\ response = NoResponse
  /\ probe = NoProbe

\* for page_data in request.pages: symbols = []
BeginPage ==
  /\ pc = "loop"
  /\ page_index <= Len(request)
  /\ symbols' = <<>>
  /\ Goto(NextPosition(page_data, 1, 1))
  /\ UNCHANGED <<request, page_index, results, response, probe>>

\* one iteration of: for text_item in page_data.texts
TextStep ==
  /\ pc = "extract"
  /\ stage = "texts"
  /\ LET text_dict == page_data.texts[item_index]
         text_upper == Upper(text_dict.text)
     IN  symbols' = TextLoop(symbols, text_dict, text_upper, 1)
  /\ Goto(NextPosition(page_data, 1, item_index + 1))
  /\ UNCHANGED <<request, page_index, results, response, probe>>

\* the exception leaves the loops; the except clause of detect_installations is next
Raise ==
  /\ pc' = "except"
  /\ UNCHANGED <<request, page_index, stage, item_index, symbols, results, response, probe>>

\* one iteration of: for rect in page_data.drawings.rectangles
RectStep ==
  /\ pc = "extract"
  /\ stage = "rectangles"
  /\ LET rect_dict == page_data.drawings.rectangles[item_index]
     IN  IF get_symbol_shape_raises(rect_dict)
         THEN Raise
         ELSE /\ symbols' = GeoAppend(symbols, rect_dict, RectPosition(rect_dict),
                                      rect_dict.rect)
              /\ Goto(NextPosition(page_data, 2, item_index + 1))
              /\ UNCHANGED <<request, page_index, results, response, probe>>

\* one iteration of: for curve in page_data.drawings.curves
CurveStep ==
  /\ pc = "extract"
  /\ stage = "curves"
  /\ LET curve_dict == page_data.drawings.curves[item_index]
     IN  IF get_symbol_shape_raises(curve_dict)
         THEN Raise
         ELSE /\ symbols' = GeoAppend(symbols, curve_dict, CurvePosition(curve_dict),
                                      CurveBbox(curve_dict))
              /\ Goto(NextPosition(page_data, 3, item_index + 1))
              /\ UNCHANGED <<request, page_index, results, response, probe>>

\* one iteration of: for line in page_data.drawings.lines
LineStep ==
  /\ pc = "extract"
  /\ stage = "lines"
  /\ LET line_dict == page_data.drawings.lines[item_index]
     IN  /\ symbols' = GeoAppend(symbols, line_dict, LinePosition(line_dict),
                                 LineBbox(line_dict))
         /\ Goto(NextPosition(page_data, 4, item_index + 1))
         /\ UNCHANGED <<request, page_index, results, response, probe>>

\* AppendResult with the new result put in front
PrependResult(list, result) == <<result>> \o list

\* results.append({...})
AppendResult(list, result) == Append(list, result)

\* the return of _extract_installation_symbols and results.append
ReturnPage ==
  /\ pc = "return"
  /\ results' = AppendResult(results, [page_number |-> page_data.page_number,
                                       symbols |-> ReturnValue(symbols)])
  /\ page_index' = page_index + 1
  /\ pc' = "loop"
  /\ UNCHANGED <<request, stage, item_index, symbols, response, probe>>

\* return {"pages": results}
Respond ==
  /\ pc = "loop"
  /\ page_index > Len(request)
  /\ response' = [status |-> 200, pages |-> results]
  /\ pc' = "done"
  /\ UNCHANGED <<request, page_index, stage, item_index, symbols, results, probe>>

\* except Exception as e: raise HTTPException(status_code=500, detail=str(e))
HandleException ==
  /\ pc = "except"
  /\ response' = [status |-> 500, detail |-> "float division by zero"]
  /\ pc' = "failed"
  /\ UNCHANGED <<request, page_index, stage, item_index, symbols, results, probe>>

Next ==
  \/ BeginPage
  \/ TextStep
  \/ RectStep
  \/ CurveStep
  \/ LineStep
  \/ ReturnPage
  \/ Respond
  \/ HandleException

Spec == Init /\ [][Next]_vars

SpecBatch == InitBatch /\ [][Next]_vars

(***************************************************************************)
(* Direct calls of the pure functions.                                     *)
(***************************************************************************)
CallIsCircle ==
  /\ pc = "idle"
  /\ probe = NoProbe
  /\ \E a \in Grid, b \in Grid, c \in Grid :
       LET item == MkCurve(a, b, c)
       IN  probe' = IF is_circle_raises(item)
                    THEN [fn |-> "is_circle", item |-> item, raised |-> TRUE]
                    ELSE [fn |-> "is_circle", item |-> item, raised |-> FALSE,
                          ret |-> is_circle(item)]
  /\ UNCHANGED <<request, pc, page_index, stage, item_index, symbols, results, response>>

CallPatternMatch ==
  /\ pc = "idle"
  /\ probe = NoProbe
  /\ \E shape \in Shapes, area \in 0..MaxArea :
       probe' = [fn |-> "is_geometric_pattern_match", shape |-> shape, area |-> area,
                 ret |-> is_geometric_pattern_match(shape, area)]
  /\ UNCHANGED <<request, pc, page_index, stage, item_index, symbols, results, response>>

NextUnit ==
  \/ CallIsCircle
  \/ CallPatternMatch

SpecUnit == InitUnit /\ [][NextUnit]_vars

(***************************************************************************)
(* What the claims speak of, stated from the inputs and the outputs.       *)
(***************************************************************************)
\* a lower-case letter with its upper-case form, in both orders
LetterPairs ==
  {<<LowerCase[i], UpperCase[i]>> : i \in DOMAIN LowerCase}
    \cup {<<UpperCase[i], LowerCase[i]>> : i \in DOMAIN LowerCase}

SameLetter(a, b) == a = b \/ <<a, b>> \in LetterPairs

\* keyword is a case-insensitive substring of text
CaseInsensitiveSubstring(keyword, text) ==
  \E off \in 0..(Len(text) - Len(keyword)) :
    \A j \in 1..Len(keyword) : SameLetter(text[off + j], keyword[j])

\* some keyword of entry n of the keyword table is in text
TextHasType(text, n) ==
  \E j \in DOMAIN INSTALLATION_PATTERNS[n].keywords :
    CaseInsensitiveSubstring(INSTALLATION_PATTERNS[n].keywords[j], text)

IsSentinel(e) == e.type = "unknown"

IsTextEntry(e) == ~IsSentinel(e) /\ e.source = "text"

IsGeoEntry(e) == ~IsSentinel(e) /\ e.source = "geometric_pattern"

\* the drawing element the loop of the current stage is at
CurrentItem == StageItems(page_data, StageNumber(stage))[item_index]

PositionOf(item) ==
  IF item.type = "rect" THEN RectPosition(item)
  ELSE IF item.type = "curve" THEN CurvePosition(item)
  ELSE LinePosition(item)

BboxOf(item) ==
  IF item.type = "rect" THEN item.rect
  ELSE IF item.type = "curve" THEN CurveBbox(item)
  ELSE LineBbox(item)

\* the geometric candidate of a drawing element, or None
MatchOf(item) == is_geometric_pattern_match(get_symbol_shape(item), calc_item_area(item))

\* positions are in sixths: the squared distance in coordinate units is below d * d
Nearer(p, q, d) == Sq(p.x - q.x) + Sq(p.y - q.y) < 36 * d * d

\* positions are in sixths: the distance in coordinate units is exactly d
AtDistance(p, q, d) == Sq(p.x - q.x) + Sq(p.y - q.y) = 36 * d * d

GeoItems(page) ==
  page.drawings.rectangles \o page.drawings.curves \o page.drawings.lines

\* C1: a geometric candidate is suppressed if and only if, when it is
\* processed, the accumulated list holds an entry of the same type at a
\* distance strictly below 20; otherwise it is appended at the end.
C1_SuppressedIffSameTypeWithin20 ==
  [][ (/\ pc = "extract"
       /\ stage # "texts"
       /\ ~get_symbol_shape_raises(CurrentItem)
       /\ MatchOf(CurrentItem) # None)
      => LET item == CurrentItem
             near == \E i \in DOMAIN symbols :
                       /\ symbols[i].type = MatchOf(item).type
                       /\ Nearer(symbols[i].position, PositionOf(item), 20)
         IN  /\ near => symbols' = symbols
             /\ ~near => /\ Len(symbols') = Len(symbols) + 1
                         /\ SubSeq(symbols', 1, Len(symbols)) = symbols
                         /\ symbols'[Len(symbols')].type = MatchOf(item).type
                         /\ symbols'[Len(symbols')].position = PositionOf(item)
                         /\ symbols'[Len(symbols')].source = "geometric_pattern" ]_vars

\* a page is through its loops; one candidate was suppressed by a same-typed
\* entry nearer than 20, another was kept at exactly 20 of a same-typed entry
C1_Witness ==
  /\ pc = "return"
  /\ \E n \in DOMAIN GeoItems(page_data) :
       LET item == GeoItems(page_data)[n]
       IN  /\ MatchOf(item) # None
           /\ \E i \in DOMAIN symbols :
                /\ symbols[i].type = MatchOf(item).type
                /\ Nearer(symbols[i].position, PositionOf(item), 20)
           /\ \A i \in DOMAIN symbols :
                ~(IsGeoEntry(symbols[i]) /\ symbols[i].position = PositionOf(item))
  /\ \E i \in DOMAIN symbols, j \in DOMAIN symbols :
       /\ IsGeoEntry(symbols[j])
       /\ symbols[i].type = symbols[j].type
       /\ AtDistance(symbols[i].position, symbols[j].position, 20)

\* C2: the text entries of a page's result are exactly one entry, of
\* confidence 1.0, per pair of a text element and a type one of whose keywords
\* is a case-insensitive substring of the text.
C2_TextEntriesExact ==
  \A k \in DOMAIN results :
    LET page == request[k]
        out == results[k].symbols
        texts == {page.texts[j] : j \in DOMAIN page.texts}
    IN  /\ \A i \in DOMAIN out :
             IsTextEntry(out[i]) =>
               /\ out[i].confidence = 10
               /\ \E t \in texts : t.text = out[i].text /\ t.bbox = out[i].bbox
               /\ \E n \in DOMAIN INSTALLATION_PATTERNS :
                    INSTALLATION_PATTERNS[n].type = out[i].type
        /\ \A t \in texts, n \in DOMAIN INSTALLATION_PATTERNS :
             Cardinality({i \in DOMAIN out :
                            /\ IsTextEntry(out[i])
                            /\ out[i].text = t.text
                            /\ out[i].bbox = t.bbox
                            /\ out[i].type = INSTALLATION_PATTERNS[n].type})
               = IF TextHasType(t.text, n)
                 THEN Cardinality({j \in DOMAIN page.texts : page.texts[j] = t})
                 ELSE 0

\* a returned page with a text of two types, both entries, and a geometric entry
C2_Witness ==
  /\ pc = "done"
  /\ response.status = 200
  /\ \E j \in DOMAIN request[1].texts :
       Cardinality({n \in DOMAIN INSTALLATION_PATTERNS :
                      TextHasType(request[1].texts[j].text, n)}) = 2
  /\ Cardinality({i \in DOMAIN response.pages[1].symbols :
                    IsTextEntry(response.pages[1].symbols[i])}) = 2
  /\ \E i \in DOMAIN response.pages[1].symbols :
       IsGeoEntry(response.pages[1].symbols[i])

\* no text of the page has a type and no drawing element has a geometric match
NoDetection(page) ==
  /\ \A j \in DOMAIN page.texts, n \in DOMAIN INSTALLATION_PATTERNS :
       ~TextHasType(page.texts[j].text, n)
  /\ \A j \in DOMAIN GeoItems(page) : MatchOf(GeoItems(page)[j]) = None

\* C3: a returned list is never empty; without any detection it is the one
\* sentinel record (type unknown, confidence 0.0), and with a detection it
\* holds no sentinel.
C3_SentinelIffNoDetection ==
  \A k \in DOMAIN results :
    LET out == results[k].symbols
    IN  /\ out # <<>>
        /\ NoDetection(request[k]) =>
             /\ Len(out) = 1
             /\ out[1].type = "unknown"
             /\ out[1].confidence = 0
        /\ ~NoDetection(request[k]) => \A i \in DOMAIN out : ~IsSentinel(out[i])

\* a page with a text and a rectangle, none of them a detection, was answered
\* with the sentinel
C3_Witness ==
  /\ pc = "done"
  /\ response.status = 200
  /\ Len(request[1].texts) > 0
  /\ Len(request[1].drawings.rectangles) > 0
  /\ response.pages[1].symbols = <<Sentinel>>

Coincident(curve) == curve.p1 = curve.p2 /\ curve.p2 = curve.p3

\* C4: a curve whose three points coincide is not a circle and raises nothing:
\* the except clause is never entered at such a curve.
C4_CoincidentCurveRaisesNothing ==
  (pc \in {"except", "failed"} /\ stage = "curves") => ~Coincident(CurrentItem)

\* C5: a rectangle of width 0 or height 0 and a line with p1 = p2 raise
\* nothing and yield no entry of a returned page.
C5_DegenerateExcludedWithoutError ==
  /\ (pc \in {"except", "failed"} /\ stage = "rectangles") =>
       (CurrentItem.rect.width # 0 /\ CurrentItem.rect.height # 0)
  /\ (pc \in {"except", "failed"} /\ stage = "lines") =>
       CurrentItem.p1 # CurrentItem.p2
  /\ \A k \in DOMAIN results :
       \A i \in DOMAIN results[k].symbols :
         LET e == results[k].symbols[i]
         IN  IsGeoEntry(e) =>
               /\ e.shape \in {"square", "rectangle"} =>
                    (e.bbox.width # 0 /\ e.bbox.height # 0)
               /\ e.shape = "line" => (e.bbox.x0 # e.bbox.x1 \/ e.bbox.y0 # e.bbox.y1)

IsSchakelaar(ret) == ret # None /\ ret.type = "SCHAKELAAR" /\ ret.confidence = 6

\* the claim as stated: a rectangle matches SCHAKELAAR (0.6) exactly for an
\* area in (0, 36]
C6_RectangleRangeFromZero ==
  (probe.fn = "is_geometric_pattern_match" /\ probe.shape = "rectangle") =>
    IF 0 < probe.area /\ probe.area <= 3600
    THEN IsSchakelaar(probe.ret)
    ELSE probe.ret = None

\* C6: a rectangle matches SCHAKELAAR with confidence 0.6 exactly for an area
\* in [4, 36], and has no match for an area below 4 or above 36.
C6_RectangleRangeFromFour ==
  (probe.fn = "is_geometric_pattern_match" /\ probe.shape = "rectangle") =>
    IF 400 <= probe.area /\ probe.area <= 3600
    THEN IsSchakelaar(probe.ret)
    ELSE probe.ret = None

\* a rectangle of area exactly 4 was matched
C6_Witness ==
  /\ probe.fn = "is_geometric_pattern_match"
  /\ probe.shape = "rectangle"
  /\ probe.area = 400
  /\ IsSchakelaar(probe.ret)

Dist2(a, b) == Sq(a.x - b.x) + Sq(a.y - b.y)

\* twice the signed area of the triangle o, a, b
Cross(o, a, b) == (a.x - o.x) * (b.y - o.y) - (a.y - o.y) * (b.x - o.x)

\* three distinct points are on a common circle exactly when they are not on a line
OnCommonCircle(a, b, c) == a # b /\ b # c /\ a # c /\ Cross(a, b, c) # 0

\* b and c are on a circle around o, and a is off that circle by more than 20%
\* of its radius, in a direction other than those of b and c
RadiallyDisplaced(a, b, c, o) ==
  /\ b # c
  /\ Dist2(b, o) > 0
  /\ Dist2(b, o) = Dist2(c, o)
  /\ a # o
  /\ Cross(o, a, b) # 0
  /\ Cross(o, a, c) # 0
  /\ \/ 25 * Dist2(a, o) > 36 * Dist2(b, o)
     \/ 25 * Dist2(a, o) < 16 * Dist2(b, o)

\* the claim as stated: true for three distinct points on a common circle,
\* false once one of three such points is moved radially by more than 20%
C7_TrueOnCircleFalseOffCircle ==
  probe.fn = "is_circle" =>
    LET a == probe.item.p1
        b == probe.item.p2
        c == probe.item.p3
    IN  /\ OnCommonCircle(a, b, c) => (~probe.raised /\ probe.ret = TRUE)
        /\ (\E o \in Grid : RadiallyDisplaced(a, b, c, o)) =>
             (~probe.raised /\ probe.ret = FALSE)

\* 9 times the squared distance of p to the mean of a, b, c
CentroidDist2(a, b, c, p) ==
  Sq(3 * p.x - (a.x + b.x + c.x)) + Sq(3 * p.y - (a.y + b.y + c.y))

\* floor(1000 * sqrt(s)): 1000 * sqrt(s) is in [Lo(s), Lo(s) + 1)
Lo(s) == ISqrt(1000000 * s)

\* with d1, d2, d3 the distances to the centroid and avg their mean: every
\* |d - avg| is below 20% of avg (0.8 avg < d < 1.2 avg, on interval bounds)
AllWithinFifth(a, b, c) ==
  LET l == [i \in 1..3 |-> Lo(CentroidDist2(a, b, c, <<a, b, c>>[i]))]
      sumLo == l[1] + l[2] + l[3]
  IN  \A i \in 1..3 :
        /\ 15 * (l[i] + 1) <= 6 * sumLo
        /\ 15 * l[i] >= 4 * (sumLo + 3)

\* some |d - avg| is above 20% of avg
SomeBeyondFifth(a, b, c) ==
  LET l == [i \in 1..3 |-> Lo(CentroidDist2(a, b, c, <<a, b, c>>[i]))]
      sumLo == l[1] + l[2] + l[3]
  IN  \E i \in 1..3 :
        \/ 15 * l[i] >= 6 * (sumLo + 3)
        \/ 15 * (l[i] + 1) <= 4 * sumLo

\* C7: for three points that do not all coincide is_circle raises nothing; it is
\* true when each distance to the centroid differs from the mean distance by
\* less than 20% of the mean, and false when one differs by more than 20%.
C7_TrueIffCentroidDistancesWithinFifth ==
  (probe.fn = "is_circle" /\ ~Coincident(probe.item)) =>
    LET a == probe.item.p1
        b == probe.item.p2
        c == probe.item.p3
    IN  /\ ~probe.raised
        /\ AllWithinFifth(a, b, c) => probe.ret = TRUE
        /\ SomeBeyondFifth(a, b, c) => probe.ret = FALSE

\* three distinct points on a common circle were found to be a circle
C7_Witness ==
  /\ probe.fn = "is_circle"
  /\ OnCommonCircle(probe.item.p1, probe.item.p2, probe.item.p3)
  /\ AllWithinFifth(probe.item.p1, probe.item.p2, probe.item.p3)
  /\ ~probe.raised
  /\ probe.ret = TRUE

\* C8: a circle matches LICHTPUNT with confidence 0.7 for every area from 10
\* to 50, both included, and has no match below 10 or above 50.
C8_CircleRangeInclusive ==
  (probe.fn = "is_geometric_pattern_match" /\ probe.shape = "circle") =>
    IF 1000 <= probe.area /\ probe.area <= 5000
    THEN probe.ret # None /\ probe.ret.type = "LICHTPUNT" /\ probe.ret.confidence = 7
    ELSE probe.ret = None

\* a circle of area exactly 50 was matched
C8_Witness ==
  /\ probe.fn = "is_geometric_pattern_match"
  /\ probe.shape = "circle"
  /\ probe.area = 5000
  /\ probe.ret # None
  /\ probe.ret.type = "LICHTPUNT"

\* 1: text, 2: rectangle, 3: curve, 4: line
StageOf(e) ==
  IF e.source = "text" THEN 1
  ELSE IF e.shape \in {"square", "rectangle"} THEN 2
  ELSE IF e.shape = "circle" THEN 3
  ELSE 4

\* the indices of the keyword table entries text has, in declaration order
TypesOf(text) ==
  SelectSeq([n \in DOMAIN INSTALLATION_PATTERNS |-> n], LAMBDA n : TextHasType(text, n))

\* text, bbox and type of the text entries due, texts in input order and the
\* types of one text in declaration order
RECURSIVE ExpectedTextKeys(_)
ExpectedTextKeys(texts) ==
  IF texts = <<>>
  THEN <<>>
  ELSE LET t == Head(texts)
           types == TypesOf(t.text)
       IN  [i \in 1..Len(types) |->
              <<t.text, t.bbox, INSTALLATION_PATTERNS[types[i]].type>>]
             \o ExpectedTextKeys(Tail(texts))

\* a is b with some elements left out
RECURSIVE IsSubSeq(_, _)
IsSubSeq(a, b) ==
  IF a = <<>> THEN TRUE
  ELSE IF b = <<>> THEN FALSE
  ELSE IF Head(a) = Head(b) THEN IsSubSeq(Tail(a), Tail(b))
  ELSE IsSubSeq(a, Tail(b))

BboxesOfStage(out, n) ==
  LET es == SelectSeq(out, LAMBDA e : StageOf(e) = n)
  IN  [i \in 1..Len(es) |-> es[i].bbox]

\* C9: in a result that is not the sentinel the text entries come first (texts
\* in input order, types in declaration order), then the rectangle entries,
\* then the curve entries, then the line entries, each in input order.
C9_StageOrder ==
  \A k \in DOMAIN results :
    LET out == results[k].symbols
        page == request[k]
        textEntries == SelectSeq(out, LAMBDA e : StageOf(e) = 1)
    IN  ~IsSentinel(out[1]) =>
          /\ \A i \in DOMAIN out, j \in DOMAIN out :
               i < j => StageOf(out[i]) <= StageOf(out[j])
          /\ [i \in 1..Len(textEntries) |->
                <<textEntries[i].text, textEntries[i].bbox, textEntries[i].type>>]
               = ExpectedTextKeys(page.texts)
          /\ \A n \in 2..4 :
               IsSubSeq(BboxesOfStage(out, n),
                        [i \in 1..Len(StageItems(page, n)) |-> BboxOf(StageItems(page, n)[i])])

\* a returned page whose result holds a text, a rectangle and a line entry
C9_Witness ==
  /\ pc = "done"
  /\ response.status = 200
  /\ LET out == response.pages[1].symbols
     IN  /\ Len(out) = 3
         /\ ~IsSentinel(out[1])
         /\ StageOf(out[1]) = 1
         /\ StageOf(out[2]) = 2
         /\ StageOf(out[3]) = 4

\* C10: a batch answered with success has one result per page, in the order
\* of the pages, the i-th with the page number of the i-th page.
C10_OneResultPerPageInOrder ==
  (pc = "done" /\ response.status = 200) =>
    /\ Len(response.pages) = Len(request)
    /\ \A i \in DOMAIN request :
         response.pages[i].page_number = request[i].page_number

\* a batch of two pages with descending page numbers was answered
C10_Witness ==
  /\ pc = "done"
  /\ response.status = 200
  /\ Len(request) = 2
  /\ request[1].page_number > request[2].page_number
  /\ Len(response.pages) = 2

\* processing the page raises: one of its drawings makes get_symbol_shape raise
PageRaises(page) ==
  \E j \in DOMAIN GeoItems(page) : get_symbol_shape_raises(GeoItems(page)[j])

RECURSIVE TextsAlone(_, _)
TextsAlone(list, texts) ==
  IF texts = <<>>
  THEN list
  ELSE TextsAlone(TextLoop(list, Head(texts), Upper(Head(texts).text), 1), Tail(texts))

RECURSIVE DrawingsAlone(_, _)
DrawingsAlone(list, items) ==
  IF items = <<>>
  THEN list
  ELSE DrawingsAlone(GeoAppend(list, Head(items), PositionOf(Head(items)),
                               BboxOf(Head(items))),
                     Tail(items))

\* the symbol list of a page that does not raise, from its own texts and
\* drawings and nothing else
PageAlone(page) ==
  ReturnValue(DrawingsAlone(TextsAlone(<<>>, page.texts), GeoItems(page)))

\* C11: what is delivered for a page depends on that page only, whatever the
\* other pages of the batch are, failing pages included: a page that raises
\* nothing is delivered with the symbol list of its own texts and drawings.
C11_PageResultIndependentOfBatch ==
  pc \in {"done", "failed"} =>
    \A i \in DOMAIN request :
      IF PageRaises(request[i])
      THEN response.status = 500
      ELSE /\ response.status = 200
           /\ response.pages[i].symbols = PageAlone(request[i])

====
